---- MODULE Spec2Model ----
(***************************************************************************)
(* The frame-synchronisation engine of luma: the render thread of the      *)
(* Renderer, the Swapchain it acquires from and presents to, the command    *)
(* buffers it records and the GPU queue that executes them.                 *)
(*                                                                         *)
(* The repository holds several snapshots of the Renderer.  `variant`      *)
(* selects the one that runs:                                               *)
(*   "frames"    src/renderer.rs: Renderer::render over                     *)
(*               MAX_CONCURRENT_FRAMES frame slots;                         *)
(*   "schedule"  src/renderer/mod.rs: the Begin, Render, End systems over   *)
(*               one command buffer, with src/renderer/swapchain.rs and     *)
(*               src/renderer/compute_pipeline.rs;                          *)
(*   "recreate"  the "schedule" systems driven by the resize side           *)
(*               transition of the specification (section 4.5), whose code  *)
(*               is not among the sources: only Swapchain::new, which       *)
(*               takes the previous swapchain, and Drop for Swapchain are;  *)
(*   "lifecycle" the construction and the teardown of one component:        *)
(*               Frame (src/renderer/frame.rs) or ComputePipeline           *)
(*               (src/renderer/compute_pipeline.rs);                        *)
(*   "setup"     the choices Renderer::new and its callees compute from     *)
(*               what the driver reports: the physical device and queue     *)
(*               family, the surface format, the image count, the extent    *)
(*               of the storage image and the work-group counts.            *)
(*   "startup"   the Loading/Ready states of RendererPlugin                 *)
(*               (src/renderer/mod.rs): the shader asset is loaded, the     *)
(*               Renderer is set up, the Render schedule runs.              *)
(***************************************************************************)
EXTENDS Integers, Sequences, FiniteSets, TLC

VARIABLES
    variant,      \* the Renderer snapshot that runs
    pc,           \* position of the render thread
    frame_count,  \* Renderer.frame_count (renderer.rs)
    frame_index,  \* render(): the selected frame slot
    image_index,  \* render(): the image index returned by acquire_next_image
    fence,        \* per slot: the frame fence is signaled
    cb,           \* per slot: the command buffer, its state and its commands
    signaled,     \* the semaphores that are signaled
    queue,        \* the GPU queue: operations submitted and not yet executed
    layout,       \* per image: new_layout of the last barrier recorded for it
    swapchain,    \* the Swapchain the Renderer owns
    last,         \* the last Swapchain call: driver result and returned Result
    destroyed,    \* per GPU object: how many times it was destroyed
    recreations,  \* swapchain recreations completed
    calls,        \* the calls of the current cycle, in the order they were made
    setup,        \* the last computation of Renderer::new: inputs and result
    retried,      \* render was called again after a cycle returned an error
    app           \* the Bevy App: RendererState, NextState and the resources

vars == <<variant, pc, frame_count, frame_index, image_index, fence, cb,
          signaled, queue, layout, swapchain, last, destroyed, recreations,
          calls, setup, retried, app>>

\* The state of the render loop, which the computations of Renderer::new
\* leave alone.
loop == <<variant, frame_count, frame_index, image_index, fence, cb,
          signaled, queue, layout, swapchain, last, destroyed, recreations,
          calls>>

----------------------------------------------------------------------------
\* Bounds of the model.

\* render cycles started in the "frames" variant (frame_count is a usize)
MaxFrames == 5
\* physical devices the instance enumerates
MaxDevices == 2
\* queue families of one physical device
MaxFamilies == 2
\* surface formats the driver lists
MaxFormats == 2
\* largest min_image_count and max_image_count the driver reports (both u32)
MaxImageCount == 4
\* largest width and height among the small extents
MaxExtent == 17
\* div_ceil(16) in ComputePipeline::dispatch: the side of a work group
WorkGroupSize == 16
\* images of one swapchain (the driver decides; min_image_count + 1)
NumImages == 2
\* swapchain recreations in the "recreate" variant
MaxRecreate == 2

\* Program constants.
MAX_CONCURRENT_FRAMES == 2

----------------------------------------------------------------------------
\* Values.

Variants == {"frames", "schedule", "recreate", "lifecycle", "setup", "startup"}

Slots == 0 .. (MAX_CONCURRENT_FRAMES - 1)

\* frames.len() of a Renderer that gains a frame with every cycle presented.
FramesLen_grows == IF variant = "frames" THEN MAX_CONCURRENT_FRAMES + frame_count ELSE 1

\* frames.len(): renderer.rs has MAX_CONCURRENT_FRAMES frames, renderer/mod.rs
\* one command buffer, one fence and one semaphore in the Renderer itself.
FramesLen == IF variant = "frames" THEN MAX_CONCURRENT_FRAMES ELSE 1

UNDEFINED == "UNDEFINED"
GENERAL == "GENERAL"
TRANSFER_SRC_OPTIMAL == "TRANSFER_SRC_OPTIMAL"
TRANSFER_DST_OPTIMAL == "TRANSFER_DST_OPTIMAL"
PRESENT_SRC_KHR == "PRESENT_SRC_KHR"

Layouts == {UNDEFINED, GENERAL, TRANSFER_SRC_OPTIMAL, TRANSFER_DST_OPTIMAL,
            PRESENT_SRC_KHR}

\* Swapchain and surface handles: 0 is the null handle.
NullHandle == 0
Handles == 1 .. (MaxRecreate + 1)
FirstSurface == 1

\* Images: the storage image of the ComputePipeline, and image k of the
\* swapchain created as handle h.
StorageImage == <<0, 0>>
PresentImage(h, k) == <<h, k>>
NoImage == <<0, 1>>
Images == {StorageImage} \cup (Handles \X (0 .. (NumImages - 1)))

\* Semaphores.
present_complete_semaphore(i) == <<"present_complete", i, 0>>
rendering_complete_semaphore(i) == <<"rendering_complete", i, 0>>
renderer_semaphore == <<"renderer", 0, 0>>
image_semaphore(h, k) == <<"image", h, k>>
NoSemaphore == <<"none", 0, 0>>

\* GPU objects a Swapchain owns.
SurfaceObj(s) == <<"surface", s, 0>>
SwapchainObj(h) == <<"swapchain", h, 0>>
ImageViewObj(h, k) == <<"image_view", h, k>>
Objects ==
    {SurfaceObj(FirstSurface)} \cup {SwapchainObj(h) : h \in Handles}
    \cup {ImageViewObj(h, k) : h \in Handles, k \in 0 .. (NumImages - 1)}
    \cup {image_semaphore(h, k) : h \in Handles, k \in 0 .. (NumImages - 1)}

\* What the driver answers to vkAcquireNextImageKHR and vkQueuePresentKHR.
DriverKinds == {"SUCCESS", "SUBOPTIMAL", "ERROR_OUT_OF_DATE_KHR", "ERROR_OTHER"}
DriverResult(kind, index) == [kind |-> kind, index |-> index]
NoCall == [op |-> "none", driver |-> DriverResult("SUCCESS", 0), ret |-> "Ok"]
Call(op, r, ret) == [op |-> op, driver |-> r, ret |-> ret]

----------------------------------------------------------------------------
\* The calls of the current cycle.

\* The system that is running: Renderer::render of renderer.rs, or the Begin,
\* Render or End system of renderer/mod.rs (Renderer::begin, Renderer::render,
\* Renderer::end).
System ==
    IF variant = "frames" THEN "Renderer::render"
    ELSE CASE pc \in {"begin_frame", "acquire", "begin_transition"} -> "begin"
           [] pc \in {"dispatch", "blit"} -> "render"
           [] OTHER -> "end"

\* One call: the system that makes it, the slot it is made for, the semaphore
\* it waits on and the semaphore it signals.
CallEntry(name, i, wait, signal) ==
    [call |-> name, system |-> System, slot |-> i, wait |-> wait,
     signal |-> signal]

\* The calls of `names` that are made when `fail` is the one that returns an
\* error: the ? operator returns at the first error.
RECURSIVE MadeCalls(_, _)
MadeCalls(names, fail) ==
    IF names = <<>> THEN <<>>
    ELSE IF Head(names) = fail THEN <<Head(names)>>
    ELSE <<Head(names)>> \o MadeCalls(Tail(names), fail)

\* The Render schedule chained out of order: Begin, End, Render.
after_system_unchained(system) ==
    CASE system = "begin" -> "end_transition"
      [] system = "end" -> "dispatch"
      [] OTHER -> "tick"

\* Render::schedule: the sets Begin, Render, End are chained, so the systems
\* of one set run after those of the set before it.  Where the render thread
\* goes on once `system` has returned Ok.
after_system(system) ==
    CASE system = "begin" -> "dispatch"
      [] system = "render" -> "end_transition"
      [] OTHER -> "tick"

----------------------------------------------------------------------------
\* Commands recorded into a command buffer.

Barrier(image, old, new) ==
    [op |-> "barrier", image |-> image, old |-> old, new |-> new,
     dst |-> NoImage, dst_layout |-> "NONE"]
CmdDispatch(image) ==
    [op |-> "dispatch", image |-> image, old |-> "NONE", new |-> "NONE",
     dst |-> NoImage, dst_layout |-> "NONE"]
CmdBlit(src, src_layout, dst, dst_layout) ==
    [op |-> "blit", image |-> src, old |-> src_layout, new |-> "NONE",
     dst |-> dst, dst_layout |-> dst_layout]

\* The layouts the images are tracked in once `cmds` are recorded: each
\* barrier leaves its image in its new_layout.
RECURSIVE LayoutAfter(_, _)
LayoutAfter(lay, cmds) ==
    IF cmds = <<>> THEN lay
    ELSE LET c == Head(cmds)
         IN  LayoutAfter(IF c.op = "barrier" THEN [lay EXCEPT ![c.image] = c.new]
                         ELSE lay,
                         Tail(cmds))

\* transition_image that passes the two layouts to the barrier the wrong way
\* round.
transition_image_swapped(image, old_layout, new_layout) ==
    <<Barrier(image, new_layout, old_layout)>>

\* Device::transition_image: one image memory barrier.
transition_image(image, old_layout, new_layout) ==
    <<Barrier(image, old_layout, new_layout)>>

\* dispatch that records its barrier and its dispatch twice.
dispatch_twice ==
    transition_image(StorageImage, UNDEFINED, GENERAL)
    \o <<CmdDispatch(StorageImage)>>
    \o transition_image(StorageImage, UNDEFINED, GENERAL)
    \o <<CmdDispatch(StorageImage)>>

\* ComputePipeline::dispatch, the same barrier and dispatch in renderer.rs and
\* in renderer/compute_pipeline.rs.
dispatch ==
    transition_image(StorageImage, UNDEFINED, GENERAL)
    \o <<CmdDispatch(StorageImage)>>

\* blit of renderer.rs without the two barriers that follow the copy.
renderer_rs_blit_without_final_barriers(present_image) ==
    transition_image(StorageImage, GENERAL, TRANSFER_SRC_OPTIMAL)
    \o transition_image(present_image, UNDEFINED, TRANSFER_DST_OPTIMAL)
    \o <<CmdBlit(StorageImage, TRANSFER_SRC_OPTIMAL,
                 present_image, TRANSFER_DST_OPTIMAL)>>

\* blit of renderer.rs that copies into the present image in the layout the
\* Begin step of renderer/mod.rs would have left it in.
renderer_rs_blit_into_general(present_image) ==
    transition_image(StorageImage, GENERAL, TRANSFER_SRC_OPTIMAL)
    \o transition_image(present_image, UNDEFINED, TRANSFER_DST_OPTIMAL)
    \o <<CmdBlit(StorageImage, TRANSFER_SRC_OPTIMAL, present_image, GENERAL)>>
    \o transition_image(StorageImage, TRANSFER_SRC_OPTIMAL, GENERAL)
    \o transition_image(present_image, TRANSFER_DST_OPTIMAL, PRESENT_SRC_KHR)

\* ComputePipeline::blit of renderer.rs.
renderer_rs_blit(present_image) ==
    transition_image(StorageImage, GENERAL, TRANSFER_SRC_OPTIMAL)
    \o transition_image(present_image, UNDEFINED, TRANSFER_DST_OPTIMAL)
    \o <<CmdBlit(StorageImage, TRANSFER_SRC_OPTIMAL,
                 present_image, TRANSFER_DST_OPTIMAL)>>
    \o transition_image(StorageImage, TRANSFER_SRC_OPTIMAL, GENERAL)
    \o transition_image(present_image, TRANSFER_DST_OPTIMAL, PRESENT_SRC_KHR)

\* blit of renderer/compute_pipeline.rs that moves the storage image to the
\* transfer-source layout and still copies from GENERAL.
blit_with_stale_source_layout(present_image) ==
    transition_image(StorageImage, GENERAL, TRANSFER_SRC_OPTIMAL)
    \o <<CmdBlit(StorageImage, GENERAL, present_image, GENERAL)>>

\* ComputePipeline::blit of renderer/compute_pipeline.rs.
blit(present_image) ==
    transition_image(StorageImage, GENERAL, GENERAL)
    \o <<CmdBlit(StorageImage, GENERAL, present_image, GENERAL)>>

\* Recording `cmds` into the command buffer of slot i.
Record(i, cmds) ==
    /\ cb' = [cb EXCEPT ![i].cmds = @ \o cmds]
    /\ layout' = LayoutAfter(layout, cmds)
    /\ calls' = calls \o [n \in 1 .. Len(cmds) |->
                             CallEntry(cmds[n].op, i, NoSemaphore, NoSemaphore)]

----------------------------------------------------------------------------
\* The GPU queue.

Submit(i, wait, signal) ==
    [kind |-> "submit", slot |-> i, wait |-> wait, signal |-> signal]
PresentOp(wait) ==
    [kind |-> "present", slot |-> 0, wait |-> wait, signal |-> NoSemaphore]

\* The command buffer of slot i is submitted and has not finished executing.
Pending(i) ==
    \E n \in 1 .. Len(queue) : queue[n].kind = "submit" /\ queue[n].slot = i

----------------------------------------------------------------------------
\* Swapchain (renderer/swapchain.rs).

SwapchainImage(h, k) ==
    [image |-> PresentImage(h, k), image_view |-> ImageViewObj(h, k),
     semaphore |-> image_semaphore(h, k)]

\* Swapchain::new.  `old` is the previous Swapchain (old_swapchain = Some) or
\* NoSwapchain (None), `h` the handle the driver gives the new swapchain and
\* `ok` whether the driver calls succeed.  The handle and the surface are
\* taken out of the previous Swapchain before anything can fail.
NoSwapchain ==
    [surface |-> NullHandle, swapchain |-> NullHandle, present_images |-> <<>>,
     present_image_index |-> 0, out_of_date |-> FALSE]

\* Swapchain::new that leaves the handle and the surface in the previous
\* Swapchain as well.
Swapchain_new_without_take(old, some, h, ok) ==
    LET old_swapchain == IF some THEN old.swapchain ELSE NullHandle
        surface == IF some THEN old.surface ELSE FirstSurface
    IN  IF ok
        THEN [ret |-> "Ok", old |-> old, old_swapchain |-> old_swapchain,
              new |-> [surface |-> surface,
                       swapchain |-> h,
                       present_images |->
                           [k \in 1 .. NumImages |-> SwapchainImage(h, k - 1)],
                       present_image_index |-> 0,
                       out_of_date |-> FALSE]]
        ELSE [ret |-> "Err", old |-> old, old_swapchain |-> old_swapchain,
              new |-> NoSwapchain]

\* Swapchain::new that creates a surface of its own when it is given a
\* previous Swapchain.
Swapchain_new_creates_surface(old, some, h, ok) ==
    LET old_swapchain == IF some THEN old.swapchain ELSE NullHandle
        surface == IF some THEN h ELSE FirstSurface
        taken == IF some
                 THEN [old EXCEPT !.swapchain = NullHandle, !.surface = NullHandle]
                 ELSE old
    IN  IF ok
        THEN [ret |-> "Ok", old |-> taken, old_swapchain |-> old_swapchain,
              new |-> [surface |-> surface,
                       swapchain |-> h,
                       present_images |->
                           [k \in 1 .. NumImages |-> SwapchainImage(h, k - 1)],
                       present_image_index |-> 0,
                       out_of_date |-> FALSE]]
        ELSE [ret |-> "Err", old |-> taken, old_swapchain |-> old_swapchain,
              new |-> NoSwapchain]

Swapchain_new(old, some, h, ok) ==
    LET old_swapchain == IF some THEN old.swapchain ELSE NullHandle
        surface == IF some THEN old.surface ELSE FirstSurface
        taken == IF some
                 THEN [old EXCEPT !.swapchain = NullHandle, !.surface = NullHandle]
                 ELSE old
    IN  IF ok
        THEN [ret |-> "Ok", old |-> taken, old_swapchain |-> old_swapchain,
              new |-> [surface |-> surface,
                       swapchain |-> h,
                       present_images |->
                           [k \in 1 .. NumImages |-> SwapchainImage(h, k - 1)],
                       present_image_index |-> 0,
                       out_of_date |-> FALSE]]
        ELSE [ret |-> "Err", old |-> taken, old_swapchain |-> old_swapchain,
              new |-> NoSwapchain]

\* present_image that returns the image after the one acquired.
present_image_after_acquired(sc) ==
    sc.present_images[((sc.present_image_index + 1) % Len(sc.present_images)) + 1]

\* Swapchain::present_image: the image at present_image_index.
present_image(sc) == sc.present_images[sc.present_image_index + 1]

\* acquire_next that returns the out-of-date error to the caller.
acquire_next_fails_on_stale(sc, r) ==
    CASE r.kind \in {"SUCCESS", "SUBOPTIMAL"} ->
            [ret |-> "Ok",
             sc |-> [sc EXCEPT !.present_image_index = r.index,
                               !.out_of_date = (r.kind = "SUBOPTIMAL")]]
      [] OTHER -> [ret |-> "Err", sc |-> [sc EXCEPT !.out_of_date = TRUE]]

\* Swapchain::acquire_next on the driver's answer r.
acquire_next(sc, r) ==
    CASE r.kind \in {"SUCCESS", "SUBOPTIMAL"} ->
            [ret |-> "Ok",
             sc |-> [sc EXCEPT !.present_image_index = r.index,
                               !.out_of_date = (r.kind = "SUBOPTIMAL")]]
      [] r.kind = "ERROR_OUT_OF_DATE_KHR" ->
            [ret |-> "Ok", sc |-> [sc EXCEPT !.out_of_date = TRUE]]
      [] OTHER -> [ret |-> "Err", sc |-> sc]

\* present that drops the driver's suboptimal flag.
present_ignores_suboptimal(sc, r) ==
    CASE r.kind \in {"SUCCESS", "SUBOPTIMAL"} ->
            [ret |-> "Ok", sc |-> [sc EXCEPT !.out_of_date = FALSE]]
      [] r.kind = "ERROR_OUT_OF_DATE_KHR" ->
            [ret |-> "Ok", sc |-> [sc EXCEPT !.out_of_date = TRUE]]
      [] OTHER -> [ret |-> "Err", sc |-> sc]

\* present that flags the swapchain stale on every driver error.
present_flags_every_error(sc, r) ==
    CASE r.kind \in {"SUCCESS", "SUBOPTIMAL"} ->
            [ret |-> "Ok", sc |-> [sc EXCEPT !.out_of_date = (r.kind = "SUBOPTIMAL")]]
      [] r.kind = "ERROR_OUT_OF_DATE_KHR" ->
            [ret |-> "Ok", sc |-> [sc EXCEPT !.out_of_date = TRUE]]
      [] OTHER -> [ret |-> "Err", sc |-> [sc EXCEPT !.out_of_date = TRUE]]

\* Swapchain::present on the driver's answer r.
present(sc, r) ==
    CASE r.kind \in {"SUCCESS", "SUBOPTIMAL"} ->
            [ret |-> "Ok", sc |-> [sc EXCEPT !.out_of_date = (r.kind = "SUBOPTIMAL")]]
      [] r.kind = "ERROR_OUT_OF_DATE_KHR" ->
            [ret |-> "Ok", sc |-> [sc EXCEPT !.out_of_date = TRUE]]
      [] OTHER -> [ret |-> "Err", sc |-> sc]

\* Drop for Swapchain: every per-image semaphore and image view, then the
\* swapchain handle and the surface.  Destroying a null handle does nothing.
RECURSIVE DestroyAll(_, _)
DestroyAll(d, objs) ==
    IF objs = <<>> THEN d
    ELSE DestroyAll([d EXCEPT ![Head(objs)] = @ + 1], Tail(objs))

RECURSIVE DrainImages(_)
DrainImages(images) ==
    IF images = <<>> THEN <<>>
    ELSE <<Head(images).semaphore, Head(images).image_view>>
         \o DrainImages(Tail(images))

drop(sc, d) ==
    DestroyAll(d,
        DrainImages(sc.present_images)
        \o (IF sc.swapchain = NullHandle THEN <<>> ELSE <<SwapchainObj(sc.swapchain)>>)
        \o (IF sc.surface = NullHandle THEN <<>> ELSE <<SurfaceObj(sc.surface)>>))

----------------------------------------------------------------------------
\* The frame fence.

\* A fence create info without flags.
fence_create_info_default == [flags |-> {}]

\* vk::FenceCreateInfo::default().flags(vk::FenceCreateFlags::SIGNALED)
fence_create_info == [flags |-> {"SIGNALED"}]

\* create_fence: the state of the new fence, TRUE for signaled.
create_fence(create_info) == "SIGNALED" \in create_info.flags

----------------------------------------------------------------------------
\* RendererPlugin (renderer/mod.rs): the states Loading and Ready.

\* enum RendererState.
RendererState == {"Loading", "Ready"}

\* #[default] Loading
RendererState_default == "Loading"

\* NextState<RendererState>: Unchanged, or the pending state.
Unchanged == "Unchanged"

\* The App after RendererPlugin::build: init_state::<RendererState>() holds
\* the default state, whose OnEnter schedule has not run yet; no shader is
\* requested, no Renderer was constructed, no system has run.
App_new ==
    [state |-> RendererState_default, next_state |-> Unchanged,
     entered |-> FALSE, shader |-> "none", renderers |-> 0, ran |-> <<>>]

\* The run condition in_state(state).
in_state(a, state) == a.state = state

\* load_shader: asset_server.load("shaders/main.comp") starts the load and
\* the handle becomes the ComputeShader resource.
load_shader(a) == [a EXCEPT !.shader = "loading"]

\* check_shader_loaded that asks for Ready whether the asset is there or not.
check_shader_loaded_unconditional(a) == [a EXCEPT !.next_state = "Ready"]

\* check_shader_loaded: next_state.set(Ready) once assets.get(..).is_some().
check_shader_loaded(a) ==
    IF a.shader = "loaded" THEN [a EXCEPT !.next_state = "Ready"] ELSE a

\* setup_renderer: assets.get(..).unwrap() panics without the asset;
\* windows.single()? and Renderer::new(..)? return the error (ok = FALSE) and
\* no resource is inserted; otherwise the new Renderer is inserted.
setup_renderer(a, ok) ==
    IF a.shader # "loaded" THEN [app |-> a, result |-> "panic"]
    ELSE IF ~ok THEN [app |-> a, result |-> "Err"]
    ELSE [app |-> [a EXCEPT !.renderers = @ + 1], result |-> "Ok"]

\* The systems of the Render schedule, in the order of their sets: begin,
\* render and end each take ResMut<Renderer> and cannot run without it.
Render(a) == IF a.renderers > 0 THEN <<"begin", "render", "end">> ELSE <<>>

----------------------------------------------------------------------------
\* The state after Renderer::new has succeeded.

Init ==
    /\ variant \in Variants
    /\ pc = CASE variant = "lifecycle" -> "new"
              [] variant = "setup" -> "setup"
              [] variant = "startup" -> "state_transition"
              [] OTHER -> "tick"
    /\ frame_count = 0
    /\ frame_index = 0
    /\ image_index = 0
    /\ fence = [i \in Slots |-> create_fence(fence_create_info)]
    /\ cb = [i \in Slots |-> [state |-> "initial", cmds |-> <<>>]]
    /\ signaled = {}
    /\ queue = <<>>
    /\ layout = [img \in Images |-> UNDEFINED]
    /\ swapchain = Swapchain_new(NoSwapchain, FALSE, 1, TRUE).new
    /\ last = NoCall
    /\ destroyed = [o \in Objects |-> 0]
    /\ recreations = 0
    /\ calls = <<>>
    /\ setup = [op |-> "none"]
    /\ retried = FALSE
    /\ app = App_new

----------------------------------------------------------------------------
\* Device (renderer/device.rs).

BeginFailures ==
    {"none", "wait_for_fences", "reset_fences", "reset_command_buffer",
     "begin_command_buffer"}

\* begin_frame without the fence wait: the command buffer is reset at once.
begin_frame_without_wait(i, fail) ==
    \/ /\ fail = "wait_for_fences"
       /\ calls' = Append(calls, CallEntry("wait_for_fences", i, NoSemaphore,
                                           NoSemaphore))
       /\ UNCHANGED <<fence, cb>>
    \/ /\ fail # "wait_for_fences"
       /\ LET made == MadeCalls(<<"wait_for_fences", "reset_fences",
                                  "reset_command_buffer",
                                  "begin_command_buffer">>, fail)
          IN  calls' = calls \o [n \in 1 .. Len(made) |->
                                    CallEntry(made[n], i, NoSemaphore, NoSemaphore)]
       /\ fence' = IF fail = "reset_fences" THEN fence
                   ELSE [fence EXCEPT ![i] = FALSE]
       /\ cb' = CASE fail \in {"reset_fences", "reset_command_buffer"} -> cb
                  [] fail = "begin_command_buffer" ->
                        [cb EXCEPT ![i] = [state |-> "initial", cmds |-> <<>>]]
                  [] OTHER ->
                        [cb EXCEPT ![i] = [state |-> "recording", cmds |-> <<>>]]

\* Device::begin_frame on slot i: wait for the fence, reset it, reset the
\* command buffer, begin recording.  `fail` names the Vulkan call that returns
\* an error, if one does; the calls before it have taken effect.
begin_frame(i, fail) ==
    \/ /\ fail = "wait_for_fences"
       /\ calls' = Append(calls, CallEntry("wait_for_fences", i, NoSemaphore,
                                           NoSemaphore))
       /\ UNCHANGED <<fence, cb>>
    \/ /\ fail # "wait_for_fences"
       /\ fence[i]
       /\ LET made == MadeCalls(<<"wait_for_fences", "reset_fences",
                                  "reset_command_buffer",
                                  "begin_command_buffer">>, fail)
          IN  calls' = calls \o [n \in 1 .. Len(made) |->
                                    CallEntry(made[n], i, NoSemaphore, NoSemaphore)]
       /\ fence' = IF fail = "reset_fences" THEN fence
                   ELSE [fence EXCEPT ![i] = FALSE]
       /\ cb' = CASE fail \in {"reset_fences", "reset_command_buffer"} -> cb
                  [] fail = "begin_command_buffer" ->
                        [cb EXCEPT ![i] = [state |-> "initial", cmds |-> <<>>]]
                  [] OTHER ->
                        [cb EXCEPT ![i] = [state |-> "recording", cmds |-> <<>>]]

EndFailures == {"none", "end_command_buffer", "queue_submit"}

\* end_frame whose submission waits on the semaphore it should signal and
\* signals the one it should wait on.
end_frame_semaphores_swapped(i, wait, signal, fail) ==
    /\ cb' = CASE fail = "end_command_buffer" -> cb
               [] fail = "queue_submit" -> [cb EXCEPT ![i].state = "executable"]
               [] OTHER -> [cb EXCEPT ![i].state = "pending"]
    /\ queue' = IF fail = "none" THEN Append(queue, Submit(i, signal, wait))
                ELSE queue
    /\ LET made == MadeCalls(<<"end_command_buffer", "queue_submit">>, fail)
       IN  calls' = calls \o [n \in 1 .. Len(made) |->
                                 IF made[n] = "queue_submit"
                                 THEN CallEntry(made[n], i, signal, wait)
                                 ELSE CallEntry(made[n], i, NoSemaphore, NoSemaphore)]

\* Device::end_frame on slot i: end the command buffer and submit it, waiting
\* on `wait`, signaling `signal` and the fence of the slot.
end_frame(i, wait, signal, fail) ==
    /\ cb' = CASE fail = "end_command_buffer" -> cb
               [] fail = "queue_submit" -> [cb EXCEPT ![i].state = "executable"]
               [] OTHER -> [cb EXCEPT ![i].state = "pending"]
    /\ queue' = IF fail = "none" THEN Append(queue, Submit(i, wait, signal))
                ELSE queue
    /\ LET made == MadeCalls(<<"end_command_buffer", "queue_submit">>, fail)
       IN  calls' = calls \o [n \in 1 .. Len(made) |->
                                 IF made[n] = "queue_submit"
                                 THEN CallEntry(made[n], i, wait, signal)
                                 ELSE CallEntry(made[n], i, NoSemaphore, NoSemaphore)]

\* A device-idle wait that returns while submissions are still pending.
wait_idle_returns_at_once == Len(queue) >= 0

\* Device::wait_idle / device_wait_idle returns once the queue is empty.
wait_idle == queue = <<>>

\* The GPU executes the operation at the head of the queue once the semaphore
\* it waits on is signaled: the wait unsignals it; a submission then signals
\* its semaphore and its fence, and its command buffer leaves the pending
\* state (ONE_TIME_SUBMIT).
GpuExecute ==
    /\ queue # <<>>
    /\ LET head == Head(queue)
       IN  /\ head.wait \in signaled
           /\ signaled' = (signaled \ {head.wait})
                          \cup (IF head.kind = "submit" THEN {head.signal} ELSE {})
           /\ fence' = IF head.kind = "submit"
                       THEN [fence EXCEPT ![head.slot] = TRUE] ELSE fence
           /\ cb' = IF head.kind = "submit" /\ cb[head.slot].state = "pending"
                    THEN [cb EXCEPT ![head.slot].state = "invalid"] ELSE cb
    /\ queue' = Tail(queue)
    /\ UNCHANGED <<app, variant, setup, retried, pc, frame_count, frame_index, image_index, layout,
                   swapchain, last, destroyed, recreations,
                   calls>>

----------------------------------------------------------------------------
\* Renderer::render of renderer.rs, one action per call it makes.

\* Slot selection that is one cycle ahead of the frame counter.
frame_slot_one_ahead(count) == (count + 1) % FramesLen

\* let frame_index = self.frame_count % self.frames.len()
frame_slot(count) == count % FramesLen

\* let frame = &self.frames[frame_index]
SelectFrame ==
    /\ variant = "frames"
    /\ pc = "tick"
    /\ frame_count < MaxFrames
    /\ frame_index' = frame_slot(frame_count)
    /\ calls' = <<CallEntry("select_frame", frame_slot(frame_count),
                           NoSemaphore, NoSemaphore)>>
    /\ pc' = "begin_frame"
    /\ UNCHANGED <<app, variant, setup, retried, frame_count, image_index, fence, cb, signaled, queue,
                   layout, swapchain, last, destroyed, recreations>>

\* self.device.begin_frame(frame)?  (renderer.rs), and
\* self.device.begin_frame(self.command_buffer, self.fence)?  (renderer/mod.rs)
BeginFrame ==
    /\ pc = "begin_frame"
    /\ \E fail \in BeginFailures :
        /\ begin_frame(frame_index, fail)
        /\ pc' = IF fail = "none" THEN "acquire" ELSE "failed"
    /\ UNCHANGED <<app, variant, setup, retried, frame_count, frame_index, image_index, signaled,
                   queue, layout, swapchain, last, destroyed, recreations>>

\* Swapchain::acquire_next_image of renderer.rs: every driver error, the
\* out-of-date one included, is returned.
AcquireNextImage ==
    /\ variant = "frames"
    /\ pc = "acquire"
    /\ \E kind \in DriverKinds, index \in 0 .. (NumImages - 1) :
        LET r == DriverResult(kind, IF kind \in {"SUCCESS", "SUBOPTIMAL"}
                                    THEN index ELSE 0)
            ok == kind \in {"SUCCESS", "SUBOPTIMAL"}
            semaphore == present_complete_semaphore(frame_index)
        IN  /\ image_index' = IF ok THEN r.index ELSE image_index
            /\ signaled' = IF ok THEN signaled \cup {semaphore} ELSE signaled
            /\ calls' = Append(calls, CallEntry("acquire_next_image", frame_index,
                                                NoSemaphore, semaphore))
            /\ last' = Call("acquire_next_image", r, IF ok THEN "Ok" ELSE "Err")
            /\ pc' = IF ok THEN "dispatch" ELSE "failed"
    /\ UNCHANGED <<app, variant, setup, retried, frame_count, frame_index, fence, cb, queue, layout,
                   swapchain, destroyed, recreations>>

\* self.compute_pipeline.dispatch(..), in renderer.rs and in renderer/mod.rs
Dispatch ==
    /\ pc = "dispatch"
    /\ Record(frame_index, dispatch)
    /\ pc' = "blit"
    /\ UNCHANGED <<app, variant, setup, retried, frame_count, frame_index, image_index, fence,
                   signaled, queue, swapchain, last, destroyed, recreations>>

\* self.compute_pipeline.blit(frame, present_image, ..)  (renderer.rs)
RendererRsBlit ==
    /\ variant = "frames"
    /\ pc = "blit"
    /\ Record(frame_index,
              renderer_rs_blit(PresentImage(swapchain.swapchain, image_index)))
    /\ pc' = "end_frame"
    /\ UNCHANGED <<app, variant, setup, retried, frame_count, frame_index, image_index, fence,
                   signaled, queue, swapchain, last, destroyed, recreations>>

\* self.device.end_frame(frame)?  (renderer.rs)
RendererRsEndFrame ==
    /\ variant = "frames"
    /\ pc = "end_frame"
    /\ \E fail \in EndFailures :
        /\ end_frame(frame_index, present_complete_semaphore(frame_index),
                     rendering_complete_semaphore(frame_index), fail)
        /\ pc' = IF fail = "none" THEN "present" ELSE "failed"
    /\ UNCHANGED <<app, variant, setup, retried, frame_count, frame_index, image_index, fence,
                   signaled, layout, swapchain, last, destroyed, recreations>>

\* The driver takes a present request into the queue unless it fails with an
\* error other than out-of-date.
PresentQueued(kind) == kind # "ERROR_OTHER"

\* Swapchain::present_image(image_index, rendering_complete_semaphore)? and
\* frame_count += 1  (renderer.rs)
RendererRsPresent ==
    /\ variant = "frames"
    /\ pc = "present"
    /\ \E kind \in DriverKinds :
        LET ok == kind \in {"SUCCESS", "SUBOPTIMAL"}
            wait_semaphore == rendering_complete_semaphore(frame_index)
        IN  /\ queue' = IF PresentQueued(kind)
                        THEN Append(queue, PresentOp(wait_semaphore))
                        ELSE queue
            /\ calls' = Append(calls, CallEntry("queue_present", frame_index,
                                                wait_semaphore, NoSemaphore))
            /\ last' = Call("present_image", DriverResult(kind, 0),
                            IF ok THEN "Ok" ELSE "Err")
            /\ frame_count' = IF ok THEN frame_count + 1 ELSE frame_count
            /\ pc' = IF ok THEN "tick" ELSE "failed"
    /\ UNCHANGED <<app, variant, setup, retried, frame_index, image_index, fence, cb, signaled,
                   layout, swapchain, destroyed, recreations>>

----------------------------------------------------------------------------
\* The Begin, Render and End systems of renderer/mod.rs, one action per call
\* they make.

\* The resize side transition of the specification: the Renderer checks the
\* stale flag before it starts a cycle and recreates the swapchain first.
ResizePending == variant = "recreate" /\ swapchain.out_of_date

\* run_render_schedule: the Render schedule starts with the Begin set.
RunRenderSchedule ==
    /\ variant # "frames"
    /\ pc = "tick"
    /\ ~ResizePending
    /\ frame_index' = 0
    /\ calls' = <<>>
    /\ pc' = "begin_frame"
    /\ UNCHANGED <<app, variant, setup, retried, frame_count, image_index, fence, cb, signaled, queue,
                   layout, swapchain, last, destroyed, recreations>>

\* Renderer::begin: self.swapchain.acquire_next(self.semaphore)?
\* An acquired image signals the semaphore; an error signals nothing.
AcquireNext ==
    /\ variant # "frames"
    /\ pc = "acquire"
    /\ \E kind \in DriverKinds,
          index \in 0 .. (Len(swapchain.present_images) - 1) :
        LET r == DriverResult(kind, IF kind \in {"SUCCESS", "SUBOPTIMAL"}
                                    THEN index ELSE 0)
            res == acquire_next(swapchain, r)
            signal_semaphore == renderer_semaphore
        IN  /\ swapchain' = res.sc
            /\ signaled' = IF kind \in {"SUCCESS", "SUBOPTIMAL"}
                           THEN signaled \cup {signal_semaphore}
                           ELSE signaled
            /\ calls' = Append(calls, CallEntry("acquire_next_image", frame_index,
                                                NoSemaphore, signal_semaphore))
            /\ last' = Call("acquire_next", r, res.ret)
            /\ pc' = IF res.ret = "Ok" THEN "begin_transition" ELSE "failed"
    /\ UNCHANGED <<app, variant, setup, retried, frame_count, frame_index, image_index, fence, cb,
                   queue, layout, destroyed, recreations>>

\* Renderer::begin: transition_image(present_image, UNDEFINED, GENERAL)
BeginTransition ==
    /\ pc = "begin_transition"
    /\ Record(frame_index,
              transition_image(present_image(swapchain).image, UNDEFINED, GENERAL))
    /\ pc' = after_system("begin")
    /\ UNCHANGED <<app, variant, setup, retried, frame_count, frame_index, image_index, fence,
                   signaled, queue, swapchain, last, destroyed, recreations>>

\* Renderer::render: self.compute_pipeline.blit(command_buffer, present_image, ..)
Blit ==
    /\ variant # "frames"
    /\ pc = "blit"
    /\ Record(frame_index, blit(present_image(swapchain).image))
    /\ pc' = after_system("render")
    /\ UNCHANGED <<app, variant, setup, retried, frame_count, frame_index, image_index, fence,
                   signaled, queue, swapchain, last, destroyed, recreations>>

\* Renderer::end: transition_image(present_image, GENERAL, PRESENT_SRC_KHR)
EndTransition ==
    /\ pc = "end_transition"
    /\ Record(frame_index,
              transition_image(present_image(swapchain).image, GENERAL,
                               PRESENT_SRC_KHR))
    /\ pc' = "end_frame"
    /\ UNCHANGED <<app, variant, setup, retried, frame_count, frame_index, image_index, fence,
                   signaled, queue, swapchain, last, destroyed, recreations>>

\* Renderer::end: self.device.end_frame(command_buffer, self.semaphore,
\* present_image.semaphore, self.fence)?
EndFrame ==
    /\ variant # "frames"
    /\ pc = "end_frame"
    /\ \E fail \in EndFailures :
        /\ end_frame(frame_index, renderer_semaphore,
                     present_image(swapchain).semaphore, fail)
        /\ pc' = IF fail = "none" THEN "present" ELSE "failed"
    /\ UNCHANGED <<app, variant, setup, retried, frame_count, frame_index, image_index, fence,
                   signaled, layout, swapchain, last, destroyed, recreations>>

\* Renderer::end: self.swapchain.present()?
Present ==
    /\ variant # "frames"
    /\ pc = "present"
    /\ \E kind \in DriverKinds :
        LET r == DriverResult(kind, 0)
            res == present(swapchain, r)
            wait_semaphore == present_image(swapchain).semaphore
        IN  /\ swapchain' = res.sc
            /\ queue' = IF PresentQueued(kind)
                        THEN Append(queue, PresentOp(wait_semaphore))
                        ELSE queue
            /\ calls' = Append(calls, CallEntry("queue_present", frame_index,
                                                wait_semaphore, NoSemaphore))
            /\ last' = Call("present", r, res.ret)
            /\ pc' = IF res.ret = "Ok" THEN after_system("end") ELSE "failed"
    /\ UNCHANGED <<app, variant, setup, retried, frame_count, frame_index, image_index, fence, cb,
                   signaled, layout, destroyed, recreations>>

\* Recreate: device.waitIdle(), a new Swapchain built from the previous one,
\* the previous one dropped.
Recreate ==
    /\ pc = "tick"
    /\ ResizePending
    /\ recreations < MaxRecreate
    /\ wait_idle
    /\ \E ok \in BOOLEAN :
        LET r == Swapchain_new(swapchain, TRUE, recreations + 2, ok)
        IN  /\ swapchain' = IF ok THEN r.new ELSE r.old
            /\ destroyed' = IF ok THEN drop(r.old, destroyed) ELSE destroyed
            /\ recreations' = IF ok THEN recreations + 1 ELSE recreations
            /\ last' = Call("new",
                            DriverResult(IF ok THEN "SUCCESS" ELSE "ERROR_OTHER", 0),
                            r.ret)
            /\ pc' = IF ok THEN "tick" ELSE "failed"
    /\ UNCHANGED <<app, variant, setup, retried, frame_count, frame_index, image_index, fence, cb,
                   signaled, queue, layout,
                   calls>>

\* Drop for Renderer: device_wait_idle, then the fields are dropped, the
\* Swapchain among them: Drop for Swapchain waits for the device to be idle
\* and then destroys its objects.
RendererDrop ==
    /\ variant # "frames"
    /\ pc \in {"tick", "failed"}
    /\ \/ /\ wait_idle
          /\ destroyed' = drop(swapchain, destroyed)
          /\ swapchain' = [swapchain EXCEPT !.present_images = <<>>]
          /\ pc' = "dropped"
       \/ \* self.device.wait_idle().unwrap() panics on an error
          /\ UNCHANGED <<destroyed, swapchain>>
          /\ pc' = "panicked"
    /\ UNCHANGED <<app, variant, setup, retried, frame_count, frame_index, image_index, fence, cb,
                   signaled, queue, layout, last, recreations,
                   calls>>

----------------------------------------------------------------------------
\* Construction and teardown of a Frame and of a ComputePipeline.

\* One call of a constructor or of a teardown: the object it creates or
\* releases, and whether its error is looked at (`?` in a constructor,
\* unwrap() in a teardown).
Step(call, object, effect, fallible) ==
    [call |-> call, object |-> object, effect |-> effect, fallible |-> fallible]

\* Frame::new
Frame_new ==
    <<Step("create_command_pool", "command_pool", "create", TRUE),
      Step("allocate_command_buffers", "command_buffer", "create", TRUE),
      Step("create_semaphore", "semaphore", "create", TRUE),
      Step("create_fence", "fence", "create", TRUE),
      Step("create_image", "storage_image", "create", TRUE),
      Step("allocate", "storage_image_allocation", "create", TRUE),
      Step("bind_image_memory", "storage_image", "none", TRUE),
      Step("create_image_view", "storage_image_view", "create", TRUE),
      Step("create_descriptor_pool", "descriptor_pool", "create", TRUE),
      Step("allocate_descriptor_sets", "descriptor_set", "create", TRUE),
      Step("update_descriptor_sets", "descriptor_set", "none", FALSE)>>

\* Frame::destroy that releases the image before the view of it.
Frame_destroy_image_before_view ==
    <<Step("reset_descriptor_pool", "descriptor_set", "release", TRUE),
      Step("destroy_descriptor_pool", "descriptor_pool", "release", FALSE),
      Step("destroy_image", "storage_image", "release", FALSE),
      Step("destroy_image_view", "storage_image_view", "release", FALSE),
      Step("free", "storage_image_allocation", "release", TRUE),
      Step("destroy_fence", "fence", "release", FALSE),
      Step("destroy_semaphore", "semaphore", "release", FALSE),
      Step("free_command_buffers", "command_buffer", "release", FALSE),
      Step("destroy_command_pool", "command_pool", "release", FALSE)>>

\* Frame::destroy
Frame_destroy ==
    <<Step("reset_descriptor_pool", "descriptor_set", "release", TRUE),
      Step("destroy_descriptor_pool", "descriptor_pool", "release", FALSE),
      Step("destroy_image_view", "storage_image_view", "release", FALSE),
      Step("destroy_image", "storage_image", "release", FALSE),
      Step("free", "storage_image_allocation", "release", TRUE),
      Step("destroy_fence", "fence", "release", FALSE),
      Step("destroy_semaphore", "semaphore", "release", FALSE),
      Step("free_command_buffers", "command_buffer", "release", FALSE),
      Step("destroy_command_pool", "command_pool", "release", FALSE)>>

\* ComputePipeline::new
ComputePipeline_new ==
    <<Step("create_shader_module", "shader_module", "create", TRUE),
      Step("create_descriptor_set_layout", "descriptor_set_layout", "create", TRUE),
      Step("create_pipeline_layout", "pipeline_layout", "create", TRUE),
      Step("create_compute_pipelines", "pipeline", "create", TRUE),
      Step("destroy_shader_module", "shader_module", "release", FALSE),
      Step("create_image", "storage_image", "create", TRUE),
      Step("allocate", "storage_image_allocation", "create", TRUE),
      Step("bind_image_memory", "storage_image", "none", TRUE),
      Step("create_image_view", "storage_image_view", "create", TRUE),
      Step("create_descriptor_pool", "descriptor_pool", "create", TRUE),
      Step("allocate_descriptor_sets", "descriptor_set", "create", TRUE),
      Step("update_descriptor_sets", "descriptor_set", "none", FALSE)>>

\* Drop for ComputePipeline
ComputePipeline_drop ==
    <<Step("free", "storage_image_allocation", "release", TRUE)>>

\* The step of `steps` that may return an error: 0 stands for none.
Failures(steps) == {0} \cup {n \in 1 .. Len(steps) : steps[n].fallible}

\* The calls made when step `fail` of `steps` returns an error: the function
\* returns (or panics) there, and the failed call has had no effect.
RunSteps(steps, fail) ==
    [n \in 1 .. (IF fail = 0 THEN Len(steps) ELSE fail) |->
        [call |-> steps[n].call, object |-> steps[n].object,
         effect |-> steps[n].effect, ok |-> n # fail]]

\* Frame::new(device, ..)
FrameNew ==
    /\ variant = "lifecycle"
    /\ pc = "new"
    /\ \E fail \in Failures(Frame_new) :
        /\ calls' = RunSteps(Frame_new, fail)
        /\ pc' = IF fail = 0 THEN "frame" ELSE "new_failed"
    /\ UNCHANGED <<app, variant, setup, retried, frame_count, frame_index, image_index, fence, cb,
                   signaled, queue, layout, swapchain, last, destroyed,
                   recreations>>

\* frame.destroy(device)
FrameDestroy ==
    /\ variant = "lifecycle"
    /\ pc = "frame"
    /\ \E fail \in Failures(Frame_destroy) :
        /\ calls' = calls \o RunSteps(Frame_destroy, fail)
        /\ pc' = IF fail = 0 THEN "destroyed" ELSE "panicked"
    /\ UNCHANGED <<app, variant, setup, retried, frame_count, frame_index, image_index, fence, cb,
                   signaled, queue, layout, swapchain, last, destroyed,
                   recreations>>

\* ComputePipeline::new(device, ..)
ComputePipelineNew ==
    /\ variant = "lifecycle"
    /\ pc = "new"
    /\ \E fail \in Failures(ComputePipeline_new) :
        /\ calls' = RunSteps(ComputePipeline_new, fail)
        /\ pc' = IF fail = 0 THEN "compute_pipeline" ELSE "new_failed"
    /\ UNCHANGED <<app, variant, setup, retried, frame_count, frame_index, image_index, fence, cb,
                   signaled, queue, layout, swapchain, last, destroyed,
                   recreations>>

\* The ComputePipeline is dropped.
ComputePipelineDrop ==
    /\ variant = "lifecycle"
    /\ pc = "compute_pipeline"
    /\ \E fail \in Failures(ComputePipeline_drop) :
        /\ calls' = calls \o RunSteps(ComputePipeline_drop, fail)
        /\ pc' = IF fail = 0 THEN "destroyed" ELSE "panicked"
    /\ UNCHANGED <<app, variant, setup, retried, frame_count, frame_index, image_index, fence, cb,
                   signaled, queue, layout, swapchain, last, destroyed,
                   recreations>>

----------------------------------------------------------------------------
\* The choices of Renderer::new (renderer/device.rs, renderer/swapchain.rs,
\* renderer/mod.rs, renderer/compute_pipeline.rs).

\* The smallest element of a non-empty set of numbers: the first position a
\* find or find_map stops at.
First(S) == CHOOSE i \in S : \A j \in S : i <= j

\* The queue families a physical device may report: the queue flags of the
\* family, and PRESENT when the family can present to the surface.
FamilyKinds ==
    {{"TRANSFER"}, {"GRAPHICS", "COMPUTE"}, {"GRAPHICS", "COMPUTE", "PRESENT"}}

\* The lists of at most n elements of S.
SeqUpTo(S, n) == UNION {[1 .. k -> S] : k \in 0 .. n}

\* Device::new of main.rs: the closure also asks the surface whether the
\* family can present to it.
main_Device_new(devices) ==
    LET suitable(families) ==
            {i \in 1 .. Len(families) :
                {"GRAPHICS", "COMPUTE", "PRESENT"} \subseteq families[i]}
        found == {d \in 1 .. Len(devices) : suitable(devices[d]) # {}}
    IN  IF found = {}
        THEN [ret |-> "Err"]
        ELSE [ret |-> "Ok", physical_device |-> First(found),
              queue_family_index |-> First(suitable(devices[First(found)])) - 1]

\* Device::new of renderer/device.rs: the first physical device with a queue family whose flags
\* contain GRAPHICS | COMPUTE, and the index of the first such family.
Device_new(devices) ==
    LET suitable(families) ==
            {i \in 1 .. Len(families) :
                {"GRAPHICS", "COMPUTE"} \subseteq families[i]}
        found == {d \in 1 .. Len(devices) : suitable(devices[d]) # {}}
    IN  IF found = {}
        THEN [ret |-> "Err"]
        ELSE [ret |-> "Ok", physical_device |-> First(found),
              queue_family_index |-> First(suitable(devices[First(found)])) - 1]

\* Device::new(raw_handles)
DeviceNew ==
    /\ variant = "setup"
    /\ pc = "setup"
    /\ pc' = "chosen"
    /\ \E devices \in SeqUpTo(SeqUpTo(FamilyKinds, MaxFamilies), MaxDevices),
          source \in {"main.rs", "renderer/device.rs"} :
        setup' = [op |-> "Device::new", source |-> source, devices |-> devices,
                  result |-> IF source = "main.rs"
                             THEN main_Device_new(devices)
                             ELSE Device_new(devices)]
    /\ UNCHANGED <<loop, retried, app>>

\* The surface formats a driver may list.
SurfaceFormats ==
    [format : {"B8G8R8A8_UNORM", "R8G8B8A8_UNORM", "R16G16B16A16_SFLOAT"},
     color_space : {"SRGB_NONLINEAR", "EXTENDED_SRGB_LINEAR"}]

\* The chosen surface format of main.rs: the first B8G8R8A8_UNORM format with
\* SRGB_NONLINEAR, or else the first format listed.
main_surface_format(surface_formats) ==
    LET found == {i \in 1 .. Len(surface_formats) :
                    /\ surface_formats[i].format = "B8G8R8A8_UNORM"
                    /\ surface_formats[i].color_space = "SRGB_NONLINEAR"}
    IN  IF found # {}
        THEN [ret |-> "Ok", surface_format |-> surface_formats[First(found)]]
        ELSE IF Len(surface_formats) > 0
        THEN [ret |-> "Ok", surface_format |-> surface_formats[1]]
        ELSE [ret |-> "Err"]

\* The chosen surface format of Swapchain::new (renderer/swapchain.rs): the
\* first format that is B8G8R8A8_UNORM or R8G8B8A8_UNORM with SRGB_NONLINEAR.
surface_format(surface_formats) ==
    LET found == {i \in 1 .. Len(surface_formats) :
                    /\ \/ surface_formats[i].format = "B8G8R8A8_UNORM"
                       \/ surface_formats[i].format = "R8G8B8A8_UNORM"
                    /\ surface_formats[i].color_space = "SRGB_NONLINEAR"}
    IN  IF found # {}
        THEN [ret |-> "Ok", surface_format |-> surface_formats[First(found)]]
        ELSE [ret |-> "Err"]

\* Swapchain::new up to the choice of the surface format.
ChooseSurfaceFormat ==
    /\ variant = "setup"
    /\ pc = "setup"
    /\ pc' = "chosen"
    /\ \E surface_formats \in SeqUpTo(SurfaceFormats, MaxFormats),
          source \in {"main.rs", "renderer/swapchain.rs"} :
        setup' = [op |-> "surface_format", source |-> source,
                  surface_formats |-> surface_formats,
                  result |-> IF source = "main.rs"
                             THEN main_surface_format(surface_formats)
                             ELSE surface_format(surface_formats)]
    /\ UNCHANGED <<loop, retried, app>>

\* Swapchain::new that never caps the image count.
desired_image_count_uncapped(min_image_count, max_image_count) ==
    min_image_count + 1

\* Swapchain::new: the image count asked of the driver. A max_image_count of
\* 0 says that the driver sets no limit.
desired_image_count(min_image_count, max_image_count) ==
    IF max_image_count > 0
    THEN IF min_image_count + 1 <= max_image_count
         THEN min_image_count + 1
         ELSE max_image_count
    ELSE min_image_count + 1

\* Swapchain::new up to the choice of the image count.
ChooseImageCount ==
    /\ variant = "setup"
    /\ pc = "setup"
    /\ pc' = "chosen"
    /\ \E min_image_count \in 0 .. MaxImageCount,
          max_image_count \in 0 .. MaxImageCount :
        setup' = [op |-> "desired_image_count",
                  min_image_count |-> min_image_count,
                  max_image_count |-> max_image_count,
                  result |-> desired_image_count(min_image_count,
                                                 max_image_count)]
    /\ UNCHANGED <<loop, retried, app>>

\* The extents of a surface or of a storage image: small ones, and the sizes
\* of a window.
Extents ==
    ((0 .. MaxExtent) \X (0 .. MaxExtent)) \cup {<<1024, 768>>, <<1000, 700>>}

\* The values of resolution_scaling: an f32 that is num / den exactly.
Scales ==
    {[num |-> 1, den |-> 4], [num |-> 1, den |-> 2], [num |-> 3, den |-> 4],
     [num |-> 1, den |-> 1], [num |-> 3, den |-> 2], [num |-> 2, den |-> 1]}

\* A cast to u32 that rounds n / d to the nearest integer.
as_u32_rounding(n, d) == IF n < 0 THEN 0 ELSE (2 * n + d) \div (2 * d)

\* `as u32` of the f32 n / d: the fraction is dropped and a negative value
\* gives 0.
as_u32(n, d) == IF n < 0 THEN 0 ELSE n \div d

\* Renderer::new and create_compute_pipeline: the extent of the storage
\* image, (width as f32 * resolution_scaling) as u32 and the same for height.
frame_extent(width, height, resolution_scaling) ==
    [width |-> as_u32(width * resolution_scaling.num, resolution_scaling.den),
     height |-> as_u32(height * resolution_scaling.num, resolution_scaling.den)]

\* Renderer::new up to the extent handed to ComputePipeline::new.
ScaleExtent ==
    /\ variant = "setup"
    /\ pc = "setup"
    /\ pc' = "chosen"
    /\ \E extent \in Extents, resolution_scaling \in Scales :
        setup' = [op |-> "frame_extent",
                  width |-> extent[1], height |-> extent[2],
                  resolution_scaling |-> resolution_scaling,
                  result |-> frame_extent(extent[1], extent[2],
                                          resolution_scaling)]
    /\ UNCHANGED <<loop, retried, app>>

\* u32::div_ceil rewritten as a / b + 1.
div_ceil_one_more(a, b) == (a \div b) + 1

\* u32::div_ceil
div_ceil(a, b) == (a \div b) + (IF a % b > 0 THEN 1 ELSE 0)

\* ComputePipeline::dispatch: the work-group counts of cmd_dispatch.
group_counts(storage_image_extent) ==
    <<div_ceil(storage_image_extent[1], WorkGroupSize),
      div_ceil(storage_image_extent[2], WorkGroupSize), 1>>

\* ComputePipeline::dispatch for a storage image of some extent.
DispatchGroups ==
    /\ variant = "setup"
    /\ pc = "setup"
    /\ pc' = "chosen"
    /\ \E storage_image_extent \in Extents :
        setup' = [op |-> "cmd_dispatch",
                  storage_image_extent |-> storage_image_extent,
                  result |-> group_counts(storage_image_extent)]
    /\ UNCHANGED <<loop, retried, app>>

----------------------------------------------------------------------------
\* The caller of Renderer::render.

\* render is called again after a cycle that returned an error: the error is
\* handed to the caller, which logs it and asks for the next frame.
\* frame_count was not advanced, so the next cycle selects the same slot.
RenderAgain ==
    /\ variant = "frames"
    /\ pc = "failed"
    /\ retried' = TRUE
    /\ frame_index' = frame_slot(frame_count)
    /\ calls' = <<CallEntry("select_frame", frame_slot(frame_count),
                           NoSemaphore, NoSemaphore)>>
    /\ pc' = "begin_frame"
    /\ UNCHANGED <<app, variant, setup, frame_count, image_index, fence, cb, signaled,
                   queue, layout, swapchain, last, destroyed, recreations>>

----------------------------------------------------------------------------
\* The schedules of the App that RendererPlugin::build adds systems to.

\* The asset server finishes loading the shader that load_shader asked for.
AssetLoaded ==
    /\ variant = "startup"
    /\ app.shader = "loading"
    /\ app' = [app EXCEPT !.shader = "loaded"]
    /\ UNCHANGED <<loop, pc, setup, retried>>

\* The StateTransition schedule, which runs before Update in every frame.
\* Its first run enters the default state: OnEnter(Loading) runs load_shader.
\* Later it applies a pending NextState; OnEnter(Ready) runs setup_renderer
\* and then run_render_startup_schedule. An Err returned by a system reaches
\* the error handler, which panics.
StateTransition ==
    /\ variant = "startup"
    /\ pc = "state_transition"
    /\ \/ /\ ~app.entered
          /\ app' = [load_shader(app) EXCEPT !.entered = TRUE,
                                             !.ran = <<"load_shader">>]
          /\ pc' = "update"
       \/ /\ app.entered
          /\ app.next_state \in {Unchanged, app.state}
          /\ app' = [app EXCEPT !.next_state = Unchanged, !.ran = <<>>]
          /\ pc' = "update"
       \/ /\ app.entered
          /\ app.next_state \notin {Unchanged, app.state}
          /\ \E ok \in BOOLEAN :
                LET entering == [app EXCEPT !.state = app.next_state,
                                            !.next_state = Unchanged]
                    r == IF entering.state = "Ready"
                         THEN setup_renderer(entering, ok)
                         ELSE [app |-> load_shader(entering), result |-> "Ok"]
                    systems == IF entering.state # "Ready" THEN <<"load_shader">>
                               ELSE IF r.result = "Ok"
                               THEN <<"setup_renderer", "run_render_startup_schedule">>
                               ELSE <<"setup_renderer">>
                IN  /\ app' = [r.app EXCEPT !.ran = systems]
                    /\ pc' = IF r.result = "Ok" THEN "update" ELSE "panicked"
    /\ UNCHANGED <<loop, setup, retried>>

\* The Update schedule: check_shader_loaded.run_if(in_state(Loading)) and
\* run_render_schedule.run_if(in_state(Ready)), which runs the Render schedule.
Update ==
    /\ variant = "startup"
    /\ pc = "update"
    /\ LET checked == IF in_state(app, "Loading")
                      THEN check_shader_loaded(app) ELSE app
           systems == (IF in_state(app, "Loading")
                       THEN <<"check_shader_loaded">> ELSE <<>>)
                      \o (IF in_state(app, "Ready")
                          THEN <<"run_render_schedule">> \o Render(app) ELSE <<>>)
       IN  app' = [checked EXCEPT !.ran = systems]
    /\ pc' = "state_transition"
    /\ UNCHANGED <<loop, setup, retried>>

----------------------------------------------------------------------------

Next ==
    \/ SelectFrame
    \/ BeginFrame
    \/ AcquireNextImage
    \/ Dispatch
    \/ RendererRsBlit
    \/ RendererRsEndFrame
    \/ RendererRsPresent
    \/ RunRenderSchedule
    \/ AcquireNext
    \/ BeginTransition
    \/ Blit
    \/ EndTransition
    \/ EndFrame
    \/ Present
    \/ Recreate
    \/ RendererDrop
    \/ GpuExecute
    \/ FrameNew
    \/ FrameDestroy
    \/ ComputePipelineNew
    \/ ComputePipelineDrop
    \/ DeviceNew
    \/ ChooseSurfaceFormat
    \/ ChooseImageCount
    \/ ScaleExtent
    \/ DispatchGroups
    \/ RenderAgain
    \/ AssetLoaded
    \/ StateTransition
    \/ Update

Spec == Init /\ [][Next]_vars

----------------------------------------------------------------------------
\* Properties.

\* The command buffer of slot i is reset or re-recorded in this step.
ResetStep(i) ==
    /\ cb'[i] # cb[i]
    /\ cb'[i].cmds = <<>>
    /\ cb'[i].state \in {"initial", "recording"}

\* C1  Fence discipline: the command buffer of a slot is reset and re-recorded
\* only in a step that starts with the fence of the slot signaled and with no
\* submission of that command buffer still pending on the GPU.
C1_FenceDiscipline ==
    [][\A i \in Slots : ResetStep(i) => (fence[i] /\ ~Pending(i))]_vars

\* Slot 0 is being re-recorded in the third cycle while the submission of
\* slot 1 is still pending.
C1_Witness ==
    /\ variant = "frames"
    /\ frame_count >= MAX_CONCURRENT_FRAMES
    /\ pc = "acquire"
    /\ cb[frame_index].state = "recording"
    /\ \E j \in Slots : j # frame_index /\ Pending(j)

\* The cycle goes on after acquire_next has left the swapchain flagged stale.
StaleCycle ==
    /\ variant # "frames"
    /\ swapchain.out_of_date
    /\ pc \in {"begin_transition", "dispatch", "blit", "end_transition",
               "end_frame", "present"}

\* This step records a command, submits a command buffer or presents.
IssuesGpuWork ==
    \/ \E i \in Slots : cb'[i].cmds # cb[i].cmds /\ cb'[i].cmds # <<>>
    \/ Len(queue') > Len(queue)

\* C2  Once acquire_next has left the swapchain flagged stale in the Begin
\* step, no step of the rest of that cycle issues GPU work: no image
\* transition, no dispatch, no blit, no queue submission, no present.
C2_NoGpuWorkWhenStale == [][StaleCycle => ~IssuesGpuWork]_vars

FairSpec == Spec /\ WF_vars(GpuExecute) /\ WF_vars(Next)

\* C4  Every submitted frame runs to completion: under fair GPU progress a
\* command buffer that is pending on the GPU eventually finishes (and signals
\* its fence), in every cycle, one whose acquire reported out-of-date included.
C4_SubmittedFrameCompletes == \A i \in Slots : Pending(i) ~> ~Pending(i)

\* The steps in which Renderer::begin calls acquire_next and Renderer::end
\* calls present.
AcquireNextStep == variant # "frames" /\ pc = "acquire" /\ pc' # pc
PresentStep == variant # "frames" /\ pc = "present" /\ pc' # pc

\* C5  acquire_next never fails the caller on staleness: on
\* ERROR_OUT_OF_DATE_KHR it sets out_of_date and returns Ok; on success it
\* stores the image index and sets out_of_date to the suboptimal flag; it
\* returns Err only for another driver error.
C5_AcquireClassification ==
    [][AcquireNextStep =>
        /\ last'.op = "acquire_next"
        /\ (last'.driver.kind = "ERROR_OUT_OF_DATE_KHR" =>
                swapchain'.out_of_date /\ last'.ret = "Ok")
        /\ (last'.driver.kind \in {"SUCCESS", "SUBOPTIMAL"} =>
                /\ last'.ret = "Ok"
                /\ swapchain'.present_image_index = last'.driver.index
                /\ swapchain'.out_of_date = (last'.driver.kind = "SUBOPTIMAL"))
        /\ (last'.ret = "Err" <=> last'.driver.kind = "ERROR_OTHER")]_vars

\* acquire_next has answered Ok to an out-of-date swapchain and flagged it.
C5_Witness ==
    /\ last.op = "acquire_next"
    /\ last.driver.kind = "ERROR_OUT_OF_DATE_KHR"
    /\ last.ret = "Ok"
    /\ swapchain.out_of_date
    /\ pc = "begin_transition"

\* C6  present classifies the driver's answer as acquire_next does:
\* ERROR_OUT_OF_DATE_KHR sets out_of_date and returns Ok, success sets
\* out_of_date to the suboptimal flag and returns Ok, only another driver
\* error returns Err.
C6_PresentClassification ==
    [][PresentStep =>
        /\ last'.op = "present"
        /\ (last'.driver.kind = "ERROR_OUT_OF_DATE_KHR" =>
                swapchain'.out_of_date /\ last'.ret = "Ok")
        /\ (last'.driver.kind \in {"SUCCESS", "SUBOPTIMAL"} =>
                /\ last'.ret = "Ok"
                /\ swapchain'.out_of_date = (last'.driver.kind = "SUBOPTIMAL"))
        /\ (last'.ret = "Err" <=> last'.driver.kind = "ERROR_OTHER")]_vars

\* present has answered Ok to a suboptimal swapchain and flagged it.
C6_Witness ==
    /\ last.op = "present"
    /\ last.driver.kind = "SUBOPTIMAL"
    /\ last.ret = "Ok"
    /\ swapchain.out_of_date
    /\ pc = "tick"

\* C7  A driver error other than out-of-date in acquire_next or present
\* reaches the caller as Err, the system fails with it, and out_of_date and
\* present_image_index keep the values they had before the call.
C7_OtherErrorPropagates ==
    [][((AcquireNextStep \/ PresentStep) /\ last'.driver.kind = "ERROR_OTHER") =>
        /\ last'.ret = "Err"
        /\ pc' = "failed"
        /\ swapchain'.out_of_date = swapchain.out_of_date
        /\ swapchain'.present_image_index = swapchain.present_image_index]_vars

\* present has failed on a swapchain whose flag was clear and whose image
\* index was not 0: both are as they were.
C7_Witness ==
    /\ last.op = "present"
    /\ last.ret = "Err"
    /\ pc = "failed"
    /\ ~swapchain.out_of_date
    /\ swapchain.present_image_index = 1

\* The image the cycle acquired.
AcquiredImage ==
    IF variant = "frames" THEN PresentImage(swapchain.swapchain, image_index)
    ELSE present_image(swapchain).image

\* C8  Layout cycle closure: once dispatch and blit are recorded the storage
\* image is tracked in GENERAL, and at every present the image to present is
\* tracked in PRESENT_SRC_KHR.
C8_LayoutCycleClosure ==
    /\ pc \in {"end_transition", "end_frame", "present"} =>
            layout[StorageImage] = GENERAL
    /\ pc = "present" => layout[AcquiredImage] = PRESENT_SRC_KHR

\* The second cycle of renderer.rs is about to present.
C8_Witness ==
    /\ variant = "frames"
    /\ frame_count >= 1
    /\ pc = "present"
    /\ layout[StorageImage] = GENERAL
    /\ layout[AcquiredImage] = PRESENT_SRC_KHR

\* What the command buffer of slot i holds for the storage image, and for the
\* present image p: the barriers with their layouts, the dispatch, and the
\* blit with the layout it reads, or writes, the image in.
StorageSteps(i) ==
    LET cmds == SelectSeq(cb[i].cmds, LAMBDA c : c.image = StorageImage)
    IN  [n \in 1 .. Len(cmds) |-> <<cmds[n].op, cmds[n].old, cmds[n].new>>]

PresentSteps(i, p) ==
    LET cmds == SelectSeq(cb[i].cmds,
                    LAMBDA c : \/ c.op = "barrier" /\ c.image = p
                               \/ c.op = "blit" /\ c.dst = p)
    IN  [n \in 1 .. Len(cmds) |->
            IF cmds[n].op = "blit" THEN <<"blit", cmds[n].dst_layout, "NONE">>
            ELSE <<cmds[n].op, cmds[n].old, cmds[n].new>>]

CycleRecorded == pc \in {"end_transition", "end_frame", "present"}

C11_RoundRobin ==
    /\ []((variant = "frames" /\ pc # "tick") =>
            frame_index = frame_count % MAX_CONCURRENT_FRAMES)
    /\ [][frame_count' # frame_count =>
            /\ frame_count' = frame_count + 1
            /\ pc = "present"
            /\ last'.ret = "Ok"
            /\ frame_index = frame_count % MAX_CONCURRENT_FRAMES
            /\ cb[frame_index].state \in {"pending", "invalid"}]_vars

\* Five cycles have succeeded: the fifth one used slot 0.
C11_Witness ==
    /\ variant = "frames"
    /\ frame_count = 5
    /\ pc = "tick"
    /\ frame_index = 0

\* The calls of the current cycle that are named `name`, and the names of all
\* of them.
CallsNamed(name) == SelectSeq(calls, LAMBDA c : c.call = name)
CallNames == [n \in 1 .. Len(calls) |-> calls[n].call]

\* C12  Semaphore chain: the queue submission of a cycle waits on the
\* semaphore that was passed to the acquire of that cycle and signals another
\* semaphore together with the fence of the slot the cycle waited for; the
\* present of the cycle waits on exactly the semaphore the submission
\* signals; and a present in the GPU queue waits on a semaphore that is
\* signaled or that a submission queued before it signals.
C12_SemaphoreChain ==
    LET acq == CallsNamed("acquire_next_image")
        sub == CallsNamed("queue_submit")
        pre == CallsNamed("queue_present")
        wf == CallsNamed("wait_for_fences")
    IN  /\ sub # <<>> =>
                /\ Len(acq) = 1 /\ Len(sub) = 1 /\ Len(wf) = 1
                /\ sub[1].wait = acq[1].signal
                /\ sub[1].signal \notin {NoSemaphore, sub[1].wait}
                /\ sub[1].slot = wf[1].slot
        /\ pre # <<>> =>
                /\ Len(sub) = 1 /\ Len(pre) = 1
                /\ pre[1].wait = sub[1].signal
        /\ \A n \in 1 .. Len(queue) :
                queue[n].kind = "present" =>
                    \/ queue[n].wait \in signaled
                    \/ \E m \in 1 .. (n - 1) :
                            /\ queue[m].kind = "submit"
                            /\ queue[m].signal = queue[n].wait

\* A cycle of renderer/mod.rs on the second image has presented: its submission
\* waited on the semaphore of the Renderer and signaled the one of the image.
C12_Witness ==
    /\ variant = "schedule"
    /\ pc = "tick"
    /\ last.op = "present" /\ last.ret = "Ok"
    /\ \E n \in 1 .. Len(calls) :
        /\ calls[n].call = "queue_submit"
        /\ calls[n].wait = renderer_semaphore
        /\ calls[n].signal = image_semaphore(swapchain.swapchain, 1)
    /\ calls[Len(calls)].call = "queue_present"
    /\ calls[Len(calls)].wait = image_semaphore(swapchain.swapchain, 1)

\* The calls of one successful Renderer::render of renderer.rs.
RenderCalls ==
    <<"select_frame", "wait_for_fences", "reset_fences", "reset_command_buffer",
      "begin_command_buffer", "acquire_next_image", "barrier", "dispatch",
      "barrier", "barrier", "blit", "barrier", "barrier", "end_command_buffer",
      "queue_submit", "queue_present">>

\* C13  One render cycle of renderer.rs makes its calls in this order and each
\* once: select the slot, wait on its fence (and reset it and the command
\* buffer), acquire an image, record the transitions, the dispatch and the
\* blit into the command buffer of the slot, submit, present; a cycle that
\* has succeeded has made all of them, all for the slot it selected, and its
\* submission signals the render-complete semaphore of that slot.
C13_CycleOrder ==
    variant = "frames" =>
        /\ Len(calls) <= Len(RenderCalls)
        /\ CallNames = SubSeq(RenderCalls, 1, Len(calls))
        /\ \A n \in 1 .. Len(calls) : calls[n].slot = frame_index
        /\ (pc = "tick" /\ frame_count > 0) =>
                /\ CallNames = RenderCalls
                /\ CallsNamed("queue_submit")[1].signal =
                        rendering_complete_semaphore(frame_index)

\* The second cycle of renderer.rs has succeeded, on slot 1.
C13_Witness ==
    /\ variant = "frames"
    /\ pc = "tick"
    /\ frame_count = 2
    /\ frame_index = 1
    /\ Len(calls) = Len(RenderCalls)

\* The place of a system in the Render schedule.
SystemRank(system) ==
    CASE system = "begin" -> 1 [] system = "render" -> 2 [] OTHER -> 3

\* C14  The Render schedule runs Begin, then Render, then End, once each per
\* tick: the calls of a tick are those of Begin, then those of Render, then
\* those of End, none of them made twice, so the dispatch and the blit are
\* recorded after Begin has begun the command buffer and called acquire, and
\* before End submits and presents; a tick that has succeeded has run all
\* three systems.
C14_ScheduleOrder ==
    variant \in {"schedule", "recreate"} =>
        /\ \A m, n \in 1 .. Len(calls) :
                m < n => SystemRank(calls[m].system) <= SystemRank(calls[n].system)
        /\ \A name \in {"begin_command_buffer", "acquire_next_image", "dispatch",
                          "blit", "queue_submit", "queue_present"} :
                Len(CallsNamed(name)) <= 1
        /\ \A n \in 1 .. Len(calls) :
                calls[n].call \in {"dispatch", "blit"} =>
                    /\ calls[n].system = "render"
                    /\ \E m \in 1 .. (n - 1) : calls[m].call = "begin_command_buffer"
                    /\ \E m \in 1 .. (n - 1) : calls[m].call = "acquire_next_image"
                    /\ \A m \in 1 .. (n - 1) :
                            calls[m].call \notin {"queue_submit", "queue_present"}
        /\ (pc = "tick" /\ last.op = "present" /\ last.ret = "Ok") =>
                {calls[n].system : n \in 1 .. Len(calls)} = {"begin", "render", "end"}

\* A tick of the Render schedule has run Begin, Render and End: the dispatch
\* and the blit are in its log, between the acquire and the submission.
C14_Witness ==
    /\ variant = "schedule"
    /\ pc = "tick"
    /\ last.op = "present" /\ last.ret = "Ok"
    /\ Len(CallsNamed("dispatch")) = 1
    /\ Len(CallsNamed("blit")) = 1
    /\ calls[Len(calls)].system = "end"

\* The submissions in the GPU queue that have not finished executing.
PendingSubmissions == {n \in 1 .. Len(queue) : queue[n].kind = "submit"}

\* C15  Frames in flight: at every moment at most MAX_CONCURRENT_FRAMES
\* submitted command buffers are still pending on the GPU, and at most one
\* of each frame slot.
C15_FramesInFlight ==
    /\ Cardinality(PendingSubmissions) <= MAX_CONCURRENT_FRAMES
    /\ \A i \in Slots :
            Cardinality({n \in PendingSubmissions : queue[n].slot = i}) <= 1

\* Both slots of renderer.rs are in flight, and the third cycle has selected
\* slot 0 again and is about to wait on its fence.
C15_Witness ==
    /\ variant = "frames"
    /\ Cardinality(PendingSubmissions) = MAX_CONCURRENT_FRAMES
    /\ frame_count >= MAX_CONCURRENT_FRAMES
    /\ pc = "begin_frame"

\* C16  Teardown and recreation ordering: the GPU objects of a Swapchain
\* (per-image semaphores, image views, swapchain handle, surface) are
\* destroyed only in a step that starts with the device idle, so with no
\* command buffer pending on the GPU.
C16_DestroyAfterIdle ==
    [][destroyed' # destroyed =>
            /\ queue = <<>>
            /\ \A i \in Slots : ~Pending(i) /\ cb[i].state # "pending"]_vars

\* The Renderer has rendered, the GPU has finished and the Swapchain is
\* dropped: its image views and its handle are destroyed.
C16_Witness ==
    /\ variant = "schedule"
    /\ pc = "dropped"
    /\ last.op = "present"
    /\ cb[0].state = "invalid"
    /\ destroyed[SwapchainObj(swapchain.swapchain)] = 1
    /\ \A k \in 0 .. (NumImages - 1) :
            destroyed[ImageViewObj(swapchain.swapchain, k)] = 1

\* C17  Swapchain::new called with a previous Swapchain creates no surface:
\* the new Swapchain owns the surface the previous one owned; the handle of
\* the previous one is passed as old_swapchain; and on successful return the
\* swapchain handle and the surface of the previous one are null, so that
\* dropping it destroys neither.
C17_NewTakesPrevious ==
    [][recreations' = recreations + 1 =>
        LET r == Swapchain_new(swapchain, TRUE, swapchain'.swapchain, TRUE)
        IN  /\ swapchain' = r.new
            /\ swapchain.surface # NullHandle
            /\ r.new.surface = swapchain.surface
            /\ r.old_swapchain = swapchain.swapchain
            /\ r.old_swapchain # NullHandle
            /\ r.old.swapchain = NullHandle
            /\ r.old.surface = NullHandle
            /\ destroyed' = drop(r.old, destroyed)
            /\ destroyed'[SurfaceObj(swapchain.surface)] = 0
            /\ destroyed'[SwapchainObj(swapchain.swapchain)] = 0]_vars

\* The Swapchain has been recreated from the previous one: it has a new
\* handle and the first surface, which is not destroyed.
C17_Witness ==
    /\ variant = "recreate"
    /\ recreations = 1
    /\ last.op = "new" /\ last.ret = "Ok"
    /\ swapchain.swapchain = 2
    /\ swapchain.surface = FirstSurface
    /\ destroyed[SurfaceObj(FirstSurface)] = 0
    /\ destroyed[ImageViewObj(1, 0)] = 1


----------------------------------------------------------------------------
\* Construction and teardown logs.

\* The objects a log of construction and teardown calls leaves allocated:
\* created by a call that succeeded and not released by a later one.
Live(log) ==
    {o \in {log[n].object : n \in 1 .. Len(log)} :
        \E n \in 1 .. Len(log) :
            /\ log[n].object = o /\ log[n].effect = "create" /\ log[n].ok
            /\ ~\E m \in (n + 1) .. Len(log) :
                    log[m].object = o /\ log[m].effect = "release" /\ log[m].ok}

\* The positions in the log of the calls that release object o.
Releases(log, o) ==
    {n \in 1 .. Len(log) : log[n].object = o /\ log[n].effect = "release"}

\* The log is the one of a Frame.
IsFrame(log) == Len(log) > 0 /\ log[1].call = "create_command_pool"

\* C18: when a step of Frame::new or of ComputePipeline::new fails, every
\* object created by the earlier steps of that construction has been
\* released when the error is returned: nothing stays allocated.
C18_ConstructionRollback ==
    (variant = "lifecycle" /\ pc = "new_failed") => Live(calls) = {}

\* The release order Frame::destroy has to keep: <<a, b>> says that a is
\* released before b.
ReleasedBefore ==
    ({"descriptor_set", "descriptor_pool"}
        \X {"storage_image_view", "storage_image", "storage_image_allocation"})
    \cup {<<"descriptor_set", "descriptor_pool">>,
          <<"storage_image_view", "storage_image">>,
          <<"storage_image", "storage_image_allocation">>,
          <<"command_buffer", "command_pool">>}
    \cup ({"storage_image_view", "storage_image", "storage_image_allocation"}
        \X {"command_buffer", "command_pool"})

\* C19: Frame::destroy releases each object of the Frame exactly once and in
\* dependency order: the descriptor pool is reset and destroyed before the
\* image view, the image and its memory are released (view, then image, then
\* memory), and those before the command buffer is freed and the command
\* pool is destroyed.
C19_DestroyOrder ==
    (variant = "lifecycle" /\ IsFrame(calls)) =>
        /\ \A n \in 1 .. Len(calls) :
                Cardinality(Releases(calls, calls[n].object)) <= 1
        /\ \A p \in ReleasedBefore :
                \A m \in Releases(calls, p[2]) :
                    \E n \in Releases(calls, p[1]) : n < m
        /\ pc = "destroyed" =>
                /\ Live(calls) = {}
                /\ \A n \in 1 .. Len(Frame_new) :
                        Frame_new[n].effect = "create" =>
                            Cardinality(Releases(calls, Frame_new[n].object)) = 1

\* A Frame was built and destroy ran to its end.
C19_Witness ==
    /\ variant = "lifecycle"
    /\ pc = "destroyed"
    /\ IsFrame(calls)
    /\ Len(calls) = Len(Frame_new) + Len(Frame_destroy)
    /\ calls[Len(calls)].call = "destroy_command_pool"

\* C20: when a wait-idle, reset or free call fails during teardown (Drop for
\* Swapchain, Frame::destroy, Drop for ComputePipeline), the teardown still
\* releases the remaining resources of that component.
C20_TeardownGoesOn ==
    pc = "panicked" =>
        IF variant = "lifecycle"
        THEN Live(calls) = {}
        ELSE /\ destroyed[SwapchainObj(swapchain.swapchain)] = 1
             /\ \A k \in 0 .. (NumImages - 1) :
                    destroyed[ImageViewObj(swapchain.swapchain, k)] = 1


\* The log is the one of a ComputePipeline.
IsComputePipeline(log) == Len(log) > 0 /\ log[1].call = "create_shader_module"

\* C21: dropping a ComputePipeline releases every GPU object it created
\* (pipeline, pipeline layout, descriptor-set layout, descriptor pool, storage
\* image view, storage image and its memory), and the memory of the storage
\* image is not freed while the image still exists.
C21_DropReleasesAll ==
    (variant = "lifecycle" /\ IsComputePipeline(calls)) =>
        /\ pc = "destroyed" => Live(calls) = {}
        /\ "storage_image" \in Live(calls) =>
                "storage_image_allocation" \in Live(calls)


----------------------------------------------------------------------------
\* Properties of the choices of Renderer::new.

\* C22: Device::new returns the first physical device, in enumeration order,
\* that has a queue family supporting graphics, compute and presentation to
\* the surface, with the lowest-index such family of that device; when no
\* device has such a family it returns an error.
C22_DeviceChoice ==
    setup.op = "Device::new" =>
        LET presentable(d) ==
                {i \in 1 .. Len(setup.devices[d]) :
                    {"GRAPHICS", "COMPUTE", "PRESENT"}
                        \subseteq setup.devices[d][i]}
            candidates ==
                {d \in 1 .. Len(setup.devices) : presentable(d) # {}}
        IN  IF candidates = {}
            THEN setup.result.ret = "Err"
            ELSE /\ setup.result.ret = "Ok"
                 /\ setup.result.physical_device = First(candidates)
                 /\ setup.result.queue_family_index + 1 =
                        First(presentable(First(candidates)))


\* C23: the surface format chosen is the first listed format that is
\* B8G8R8A8_UNORM or R8G8B8A8_UNORM with SRGB_NONLINEAR; when no listed format
\* matches it is the first format listed; the choice fails only when the list
\* is empty.
C23_FormatChoice ==
    setup.op = "surface_format" =>
        LET formats == setup.surface_formats
            preferred ==
                {i \in 1 .. Len(formats) :
                    /\ formats[i].format \in {"B8G8R8A8_UNORM", "R8G8B8A8_UNORM"}
                    /\ formats[i].color_space = "SRGB_NONLINEAR"}
        IN  IF formats = <<>>
            THEN setup.result.ret = "Err"
            ELSE /\ setup.result.ret = "Ok"
                 /\ setup.result.surface_format =
                        formats[IF preferred # {} THEN First(preferred) ELSE 1]


\* C24: the image count asked for is the driver minimum + 1, capped at the
\* driver maximum when that maximum is greater than 0, and exactly
\* minimum + 1 when the maximum is 0; for max >= min > 0 it lies in
\* [min, max].
C24_ImageCount ==
    setup.op = "desired_image_count" =>
        LET min == setup.min_image_count
            max == setup.max_image_count
        IN  /\ max > 0 =>
                setup.result = IF min + 1 < max THEN min + 1 ELSE max
            /\ max = 0 => setup.result = min + 1
            /\ (max >= min /\ min > 0) =>
                (min <= setup.result /\ setup.result <= max)

\* The cap applies: the driver allows no image above its minimum.
C24_Witness ==
    /\ setup.op = "desired_image_count"
    /\ setup.min_image_count > 0
    /\ setup.max_image_count = setup.min_image_count
    /\ setup.result = setup.max_image_count


\* C25: the extent of the storage image is (trunc(width * scale),
\* trunc(height * scale)), truncated toward zero and never rounded: 1024x768
\* with scale 0.25 gives 256x192 and scale 1.0 leaves the extent unchanged.
C25_ScaledExtent ==
    setup.op = "frame_extent" =>
        LET num == setup.resolution_scaling.num
            den == setup.resolution_scaling.den
            Trunc(x, r) == r * den <= x * num /\ x * num < (r + 1) * den
        IN  /\ Trunc(setup.width, setup.result.width)
            /\ Trunc(setup.height, setup.result.height)
            /\ (setup.width = 1024 /\ setup.height = 768 /\ num = 1 /\ den = 4)
                => setup.result = [width |-> 256, height |-> 192]
            /\ num = den =>
                setup.result = [width |-> setup.width, height |-> setup.height]

\* An extent whose scaled width and height have a fraction of one half or
\* more, which rounding would take up.
C25_Witness ==
    /\ setup.op = "frame_extent"
    /\ setup.width = 7 /\ setup.height = 5
    /\ setup.resolution_scaling = [num |-> 3, den |-> 4]
    /\ setup.result = [width |-> 5, height |-> 3]

\* C26: for a storage image of w x h with w, h >= 1, dispatch asks for
\* gx = ceil(w / 16) by gy = ceil(h / 16) work groups: 16 * gx >= w >
\* 16 * (gx - 1) and 16 * gy >= h > 16 * (gy - 1); 1000x700 gives 63x44.
C26_DispatchCoverage ==
    (/\ setup.op = "cmd_dispatch"
     /\ setup.storage_image_extent[1] >= 1
     /\ setup.storage_image_extent[2] >= 1) =>
        LET w == setup.storage_image_extent[1]
            h == setup.storage_image_extent[2]
            gx == setup.result[1]
            gy == setup.result[2]
        IN  /\ 16 * gx >= w /\ w > 16 * (gx - 1)
            /\ 16 * gy >= h /\ h > 16 * (gy - 1)
            /\ setup.result[3] = 1
            /\ (w = 1000 /\ h = 700) => (gx = 63 /\ gy = 44)

\* A width that fills one work group exactly and a height that needs a
\* second one for a single row.
C26_Witness ==
    /\ setup.op = "cmd_dispatch"
    /\ setup.storage_image_extent = <<16, 17>>
    /\ setup.result = <<1, 2, 1>>


----------------------------------------------------------------------------
\* The first use of a frame slot.

\* The command buffer of slot i has never been begun and no cycle has
\* failed: no cycle has used the slot yet.
Unused(i) == cb[i] = [state |-> "initial", cmds |-> <<>>] /\ ~retried

\* C27: every frame fence is created signaled, so the first begin_frame on a
\* slot finds its fence signaled, and returns from the wait, while no
\* submission of that slot has been made.
C27_FirstWaitReturns ==
    (variant \in {"frames", "schedule", "recreate"}
        /\ pc = "begin_frame" /\ Unused(frame_index)) =>
        /\ fence[frame_index]
        /\ \A n \in 1 .. Len(queue) :
                ~(queue[n].kind = "submit" /\ queue[n].slot = frame_index)
        /\ ENABLED begin_frame(frame_index, "none")

\* The first begin_frame on the second slot has returned: its fence is now
\* reset and the slot has made no submission.
C27_Witness ==
    /\ variant = "frames"
    /\ pc = "acquire"
    /\ frame_count = 1
    /\ frame_index = 1
    /\ ~fence[1]
    /\ cb[1] = [state |-> "recording", cmds |-> <<>>]


----------------------------------------------------------------------------
\* The image present_image returns.

\* acquire_next has stored the index of an acquired image in this step.
AcquiredStep ==
    AcquireNextStep /\ last'.driver.kind \in {"SUCCESS", "SUBOPTIMAL"}

\* C28: from the creation of the Swapchain until it is dropped,
\* present_image_index is a valid index into present_images, present_image
\* returns the image whose index the driver gave to the most recent
\* acquire_next that acquired one, and no other call (an acquire that reports
\* out-of-date among them) changes the image it returns.
C28_PresentImage ==
    /\ []((variant \in {"schedule", "recreate"} /\ pc # "dropped") =>
            /\ swapchain.present_image_index >= 0
            /\ swapchain.present_image_index < Len(swapchain.present_images))
    /\ [][(variant \in {"schedule", "recreate"}) =>
            ((AcquiredStep =>
                present_image(swapchain') =
                    swapchain.present_images[last'.driver.index + 1])
             /\ ((~AcquiredStep
                    /\ swapchain'.swapchain = swapchain.swapchain
                    /\ pc' # "dropped") =>
                present_image(swapchain') = present_image(swapchain)))]_vars

\* An acquire has reported out-of-date after an earlier one had acquired the
\* second image: present_image still returns that image.
C28_Witness ==
    /\ variant = "schedule"
    /\ last.op = "acquire_next"
    /\ last.driver.kind = "ERROR_OUT_OF_DATE_KHR"
    /\ swapchain.out_of_date
    /\ swapchain.present_image_index = 1
    /\ present_image(swapchain) = swapchain.present_images[2]


----------------------------------------------------------------------------
\* The frame slots.

----------------------------------------------------------------------------
\* The cycle after a failed one.

\* C30: a cycle that fails after the frame fence was reset does not poison
\* the slot: whenever begin_frame is about to wait on the fence of a slot,
\* the fence is signaled or a submission that will signal it is pending.
C30_SlotNotPoisoned ==
    (variant = "frames" /\ pc = "begin_frame") =>
        (fence[frame_index] \/ Pending(frame_index))


----------------------------------------------------------------------------
\* The acquire semaphore of renderer/mod.rs.

\* This step submits a command buffer.
SubmitStep ==
    /\ Len(queue') = Len(queue) + 1
    /\ queue'[Len(queue')].kind = "submit"

\* C31: every submission of renderer/mod.rs waits on a semaphore that the
\* acquire of the same cycle has signaled, also in a cycle whose acquire_next
\* reported out-of-date, and acquire_next is never handed a semaphore that is
\* still signaled from an earlier cycle.
C31_SubmitWaitsOnSignal ==
    [][(variant \in {"schedule", "recreate"}) =>
        ((SubmitStep => queue'[Len(queue')].wait \in signaled)
         /\ (AcquireNextStep => renderer_semaphore \notin signaled))]_vars


----------------------------------------------------------------------------
\* The stale flag.

\* C32: once acquire_next or present has set out_of_date on a Swapchain, the
\* flag stays set on that instance under every later acquire_next or present;
\* only a newly created Swapchain has it cleared.
C32_StaleFlagSticky ==
    [][(variant \in {"schedule", "recreate"}
            /\ swapchain.out_of_date
            /\ swapchain'.swapchain = swapchain.swapchain) =>
        swapchain'.out_of_date]_vars


----------------------------------------------------------------------------
\* Swapchain handles and the surface across recreation.

\* C33: every swapchain handle created by Swapchain::new has been destroyed
\* exactly once when every Swapchain of the recreation chain has been
\* dropped, the handle taken out of the previous Swapchain and passed as
\* old_swapchain included (every recreation of the chain having succeeded).
C33_NoHandleLeak ==
    (variant = "recreate" /\ pc = "dropped" /\ swapchain.swapchain # NullHandle) =>
        \A h \in 1 .. (recreations + 1) : destroyed[SwapchainObj(h)] = 1

\* C34: when Swapchain::new with a previous Swapchain returns an error, the
\* previous Swapchain still holds its swapchain handle and its surface, and
\* the surface is destroyed exactly once when that Swapchain is dropped.
C34_FailedRecreationKeepsOld ==
    variant = "recreate" =>
        /\ (pc = "failed" /\ last.op = "new" /\ last.ret = "Err") =>
                /\ swapchain.swapchain # NullHandle
                /\ swapchain.surface # NullHandle
        /\ pc = "dropped" => destroyed[SurfaceObj(FirstSurface)] = 1


----------------------------------------------------------------------------
\* The layouts the barriers declare.

\* Every barrier of `cmds`, recorded in this order with the images tracked in
\* `lay`, declares as old layout UNDEFINED or the layout its image is in.
RECURSIVE Consistent(_, _)
Consistent(lay, cmds) ==
    IF cmds = <<>> THEN TRUE
    ELSE LET c == Head(cmds)
         IN  /\ c.op = "barrier" => c.old \in {UNDEFINED, lay[c.image]}
             /\ Consistent(LayoutAfter(lay, <<c>>), Tail(cmds))

\* The commands this step appends to the command buffer of slot i.
Appended(i) ==
    IF Len(cb'[i].cmds) > Len(cb[i].cmds)
    THEN SubSeq(cb'[i].cmds, Len(cb[i].cmds) + 1, Len(cb'[i].cmds))
    ELSE <<>>

\* C35: every image barrier recorded, within a cycle and from one cycle to
\* the next, declares as old layout UNDEFINED or the layout in which the
\* previous barrier on that image left it; the GENERAL to PRESENT_SRC_KHR
\* barrier of Renderer::end finds the image to present in GENERAL.
C35_BarrierConsistency ==
    /\ []((variant \in {"schedule", "recreate"} /\ pc = "end_transition") =>
            layout[AcquiredImage] = GENERAL)
    /\ [][\A i \in Slots : Consistent(layout, Appended(i))]_vars

\* A later cycle of renderer/mod.rs has recorded its last barrier: the image
\* it acquired and the image of an earlier cycle are both left in
\* PRESENT_SRC_KHR.
C35_Witness ==
    /\ variant = "schedule"
    /\ pc = "end_frame"
    /\ layout[AcquiredImage] = PRESENT_SRC_KHR
    /\ \E k \in 0 .. (NumImages - 1) :
        /\ PresentImage(swapchain.swapchain, k) # AcquiredImage
        /\ layout[PresentImage(swapchain.swapchain, k)] = PRESENT_SRC_KHR

----------------------------------------------------------------------------
\* The schedule that ran last in the App ran `system`.
Runs(a, system) == \E k \in 1 .. Len(a.ran) : a.ran[k] = system

RenderSystemNames == {"begin", "render", "end"}

\* C36: the renderer state starts as Loading and is Ready only once the
\* compute shader asset is loaded; at most one Renderer is ever constructed,
\* it is constructed by the step that enters Ready, and that step runs
\* setup_renderer, which leaves exactly one Renderer unless it fails; begin,
\* render and end run only in a frame that starts in Ready with the Renderer
\* in place; and a state that is Ready stays Ready.
C36_LoadingThenReady ==
    /\ (variant = "startup" => app.state = "Loading")
    /\ [](variant = "startup" =>
            /\ (app.state = "Ready" => app.shader = "loaded")
            /\ app.renderers <= 1
            /\ (app.renderers = 1 => app.state = "Ready")
            /\ (app.state = "Ready" /\ pc # "panicked" => app.renderers = 1))
    /\ [][(variant = "startup") =>
            /\ (app.state = "Ready" => app'.state = "Ready")
            /\ (app'.renderers # app.renderers =>
                    app.state = "Loading" /\ app'.state = "Ready")
            /\ (app.state = "Loading" /\ app'.state = "Ready" =>
                    Runs(app', "setup_renderer"))
            /\ (\A system \in RenderSystemNames :
                    (app' # app /\ Runs(app', system)) =>
                        app.state = "Ready" /\ app.renderers = 1)]_vars

\* The Render schedule has run begin, render and end in Ready, with the one
\* Renderer that setup_renderer constructed.
C36_Witness ==
    /\ variant = "startup"
    /\ app.state = "Ready"
    /\ app.shader = "loaded"
    /\ app.renderers = 1
    /\ app.ran = <<"run_render_schedule", "begin", "render", "end">>

====
